---------------------------- MODULE Spec2Model ----------------------------
(***************************************************************************)
(* marina-operator: the Terminal and User reconcilers                      *)
(* (internal/controller) against an object store with get / create /      *)
(* update / delete keyed by (kind, namespace, name).                       *)
(*                                                                         *)
(* A Reconcile pass is a sequence of store calls; every store call is one  *)
(* step of the model, so that external actors (who create, edit and delete *)
(* primary objects and create Roles) interleave with a pass exactly where *)
(* the code gives up control.                                              *)
(***************************************************************************)
EXTENDS Integers, Sequences, FiniteSets, TLC

(* -------------------------------- bounds ------------------------------- *)
\* how many store calls may fail with an error other than NotFound /
\* AlreadyExists / Conflict in one behaviour
MaxFaults == 1
\* longest role list of a User
MaxRoles == 2

(* ------------------------------ universe ------------------------------- *)
Nil == "nil"
\* no object
NoObj == [absent |-> TRUE]
Namespaces == {"marina-system"}
TerminalNames == {"t", "s"}
Images == {"busybox:1.36", "alpine:3"}
TerminalKeys == Namespaces \X TerminalNames
\* "a" with role "b-c" and "a-b" with role "c" derive one binding name
UserNames == {"u", "a", "a-b"}
UserKeys == Namespaces \X UserNames
RoleNames == {"SomeRole", "NoExistRole"}
\* the Roles in the store from the start
ExistingRoles == {"SomeRole"}

\* terminal_controller.go:20-23
TerminalDeploymentFinalizer == "marina.io.deployment/finalizer"
TerminalServiceFinalizer == "marina.io.service/finalizer"
TerminalFinalizers == {TerminalDeploymentFinalizer, TerminalServiceFinalizer}

VARIABLES
    terminals,    \* store: Terminal objects, key -> [image, deleting, finalizers]
    deployments,  \* store: Deployments, key -> object
    services,     \* store: Services, key -> object
    faults,       \* store errors injected so far
    tpc,          \* per Terminal key: position of the pass in flight
    tobj,         \* per Terminal key: the in-memory Terminal of the pass
    tpass,        \* per Terminal key: record of the pass in flight
    tlast,        \* per Terminal key: record of the last finished pass
    users,        \* store: User objects, key -> [roles, deleting, finalizers]
    serviceaccounts, \* store: ServiceAccounts, key -> object
    rolebindings, \* store: RoleBindings, key -> object
    roles,        \* store: Roles, key -> object
    upc,          \* per User key: position of the pass in flight
    uobj,         \* per User key: the in-memory User of the pass
    uidx,         \* per User key: index of the role the binding loop is at
    upass,        \* per User key: record of the pass in flight
    ulast,        \* per User key: record of the last finished pass
    deleted,      \* derived objects a finished pass deleted, not re-created since
    redeleted,    \* derived objects for which a later pass issued Delete again
    scope,        \* what is at work in this behaviour: the reconciler ("Terminal"
                  \* or "User"), two primary objects instead of one ("Pair"),
                  \* the dispatcher's request queue and an actor who creates
                  \* and deletes Deployments and Services ("Queue")
    foreign,      \* derived-kind objects in the store that another actor created
    pending       \* Terminal keys with a reconcile request in the queue

tvars == <<terminals, deployments, services, tpc, tobj, tpass, tlast>>

uvars == <<users, serviceaccounts, rolebindings, roles, upc, uobj, uidx, upass, ulast>>

vars == <<tvars, uvars, faults, deleted, redeleted, scope, foreign, pending>>

\* the primary objects of a behaviour
SoloTerminals == Namespaces \X {"t"}

TerminalsInPlay == IF "Pair" \in scope THEN TerminalKeys ELSE SoloTerminals

SoloUsers == Namespaces \X {"u"}

UsersInPlay == IF "Pair" \in scope THEN UserKeys \ SoloUsers ELSE SoloUsers

(* ------------------------------ the store ------------------------------ *)
Put(store, key, o) ==
    [x \in (DOMAIN store) \cup {key} |-> IF x = key THEN o ELSE store[x]]

Drop(store, key) == [x \in (DOMAIN store) \ {key} |-> store[x]]

Lookup(store, key) == IF key \in DOMAIN store THEN store[key] ELSE NoObj

EmptyStore == [x \in {} |-> NoObj]

\* what Create answers when the store is healthy
CreateResult(store, key) ==
    IF key \in DOMAIN store THEN "AlreadyExists" ELSE "ok"

\* what Delete answers when the store is healthy
DeleteResult(store, key) ==
    IF key \in DOMAIN store THEN "ok" ELSE "NotFound"

\* a healthy answer, or (while the fault budget lasts) an unspecific error
Outcomes(healthy) ==
    {healthy} \cup (IF faults < MaxFaults THEN {"Error"} ELSE {})

Charge(res) == faults' = IF res = "Error" THEN faults + 1 ELSE faults

\* a primary object with a deletion timestamp and no finalizer is erased
Settle(store, key, o) ==
    IF o.deleting /\ o.finalizers = {} THEN Drop(store, key) ELSE Put(store, key, o)

\* what the store holds after Update of the primary object answered `res`
Persisted_Always(store, key, o, res) == Settle(store, key, o)

Persisted(store, key, o, res) ==
    IF res = "ok" THEN Settle(store, key, o) ELSE store

(* ------------------------- desired-object builders --------------------- *)
SSHPort == 22

deploymentForTerminal_WrongImage(key, terminal) ==
    [key |-> <<key[1], "marina-terminal-" \o key[2]>>,
     image |-> CHOOSE i \in Images : i # terminal.image,
     replicas |-> 1,
     container |-> "exec-shell"]

deploymentForTerminal_SharedName(key, terminal) ==
    [key |-> <<key[1], "marina-terminal">>,
     image |-> terminal.image,
     replicas |-> 1,
     container |-> "exec-shell"]

deploymentForTerminal(key, terminal) ==
    [key |-> <<key[1], "marina-terminal-" \o key[2]>>,
     image |-> terminal.image,
     replicas |-> 1,
     container |-> "exec-shell"]

serviceForTerminal(key, terminal) ==
    [key |-> <<key[1], "marina-terminal-" \o key[2]>>,
     port |-> SSHPort,
     protocol |-> "TCP",
     targetPort |-> "ssh"]

\* client.IgnoreAlreadyExists / client.IgnoreNotFound
IgnoreAlreadyExists_Not(res) == res

IgnoreAlreadyExists_All(res) == "ok"

IgnoreAlreadyExists(res) == IF res = "AlreadyExists" THEN "ok" ELSE res

IgnoreNotFound_Not(res) == res

IgnoreNotFound(res) == IF res = "NotFound" THEN "ok" ELSE res

\* `if err := r.Delete(...); err != nil { return err }`: every answer of
\* Delete but success ends the pass
DeleteFailed_OnlyNotFound(res) == res = "NotFound"

DeleteFailed(res) == res # "ok"

(* ------------------------------- views --------------------------------- *)
\* controllerutil.AddFinalizer / RemoveFinalizer / ContainsFinalizer
AddFinalizer_Skip(o, f) == o

AddFinalizer(o, f) == [o EXCEPT !.finalizers = @ \cup {f}]

RemoveFinalizer_Keep(o, f) == o

RemoveFinalizer(o, f) == [o EXCEPT !.finalizers = @ \ {f}]

ContainsFinalizer_Never(o, f) == FALSE

ContainsFinalizer(o, f) == f \in o.finalizers

\* what the store holds under the names derived from the Terminal `key`
TerminalDerived(key) ==
    [deployment |-> Lookup(deployments, <<key[1], "marina-terminal-" \o key[2]>>),
     service |-> Lookup(services, <<key[1], "marina-terminal-" \o key[2]>>)]

\* record of a pass in flight: the primary object as the pass read it (obj),
\* the derived objects in the store at that moment (pre; for a User pass the
\* RoleBindings), whether the
\* primary object was written by someone else since (stale: the pass holds
\* an outdated resourceVersion), whether a store call of the pass met an
\* injected error (fault) or a Delete answered NotFound, whether a call of
\* the pass changed the store (mutated), the derived objects the pass deleted
\* (dels), how the previous pass ended if nothing touched the primary
\* object in between (prev), how many Create / Update / Delete calls the pass
\* issued (calls) and whether a Create answered AlreadyExists (existed)
NoPrev == [res |-> Nil, stage |-> Nil, marked |-> FALSE, missing |-> {}]

NoPass == [obj |-> NoObj, pre |-> NoObj, stale |-> FALSE, fault |-> FALSE,
           notFound |-> FALSE, mutated |-> FALSE, dels |-> {}, prev |-> NoPrev,
           calls |-> 0, existed |-> FALSE]

\* record of the pass that has just finished: the pass record, its result,
\* the step it returned from, the object a successful Update wrote and the
\* listed Roles that were missing when it returned (User passes). The record
\* is dropped when the primary object is created or edited and when the next
\* pass reads it; a delete request leaves it, with `marked` set. So while
\* the record is there, the derived objects in the store are as the pass
\* left them, and while `marked` is not set so is the primary object.
NoLast == [res |-> Nil, stage |-> Nil, obj |-> NoObj, pre |-> NoObj, stale |-> FALSE,
           fault |-> FALSE, notFound |-> FALSE, mutated |-> FALSE, prev |-> NoPrev,
           updated |-> NoObj, missing |-> {}, marked |-> FALSE,
           calls |-> 0, existed |-> FALSE]

Prev(last) ==
    [res |-> last.res, stage |-> last.stage, marked |-> last.marked,
     missing |-> last.missing]

Finished(pass, res, stage, upd, missing) ==
    [res |-> res, stage |-> stage, obj |-> pass.obj, pre |-> pass.pre,
     stale |-> pass.stale, fault |-> pass.fault, notFound |-> pass.notFound,
     mutated |-> pass.mutated, prev |-> pass.prev, updated |-> upd,
     missing |-> missing, marked |-> FALSE,
     calls |-> pass.calls, existed |-> pass.existed]

\* an external write to the primary object `key`: a pass in flight now holds
\* an outdated resourceVersion, and the last finished pass is no longer the
\* latest thing that happened to the object
Touched(pass, pc, key) ==
    [pass EXCEPT ![key].stale = (pc[key] # "idle")]

Unquiet(last, key) == [last EXCEPT ![key] = NoLast]

Marked(last, key) ==
    [last EXCEPT ![key].marked = (last[key].res # Nil)]

\* r.Update sends the object that r.Get filled in, with the resourceVersion
\* it had then: the version is outdated when the object was written since
Outdated_Never(pass) == FALSE

Outdated(pass) == pass.stale

\* bookkeeping of one Delete call on the derived object `o` by a pass
NoteDelete(o) ==
    redeleted' = redeleted \cup (IF o \in deleted THEN {o} ELSE {})

(* --------------------------- initial state ----------------------------- *)
Fresh ==
    /\ terminals = EmptyStore
    /\ deployments = EmptyStore
    /\ services = EmptyStore
    /\ tpc = [k \in TerminalKeys |-> "idle"]
    /\ tobj = [k \in TerminalKeys |-> NoObj]
    /\ tpass = [k \in TerminalKeys |-> NoPass]
    /\ tlast = [k \in TerminalKeys |-> NoLast]
    /\ users = EmptyStore
    /\ serviceaccounts = EmptyStore
    /\ rolebindings = EmptyStore
    /\ roles = [x \in Namespaces \X ExistingRoles |-> [key |-> x]]
    /\ upc = [k \in UserKeys |-> "idle"]
    /\ uobj = [k \in UserKeys |-> NoObj]
    /\ uidx = [k \in UserKeys |-> 0]
    /\ upass = [k \in UserKeys |-> NoPass]
    /\ ulast = [k \in UserKeys |-> NoLast]
    /\ deleted = {}
    /\ redeleted = {}
    /\ foreign = {}
    /\ pending = {}

Init == Fresh /\ faults = 0 /\ scope \in {{"Terminal"}, {"User"}}

(* -------------------------- external actors ---------------------------- *)
\* SetupWithManager, For(&Terminal{}): a change of the Terminal `k` puts a
\* request for it in the queue; so does a pass that returned an error
Enqueue(k) == IF "Queue" \in scope THEN pending \cup {k} ELSE pending

CreateTerminal(k, img) ==
    /\ UNCHANGED <<uvars, scope, foreign>>
    /\ k \notin DOMAIN terminals
    /\ terminals' = Put(terminals, k, [image |-> img, deleting |-> FALSE, finalizers |-> {}])
    /\ tpass' = Touched(tpass, tpc, k)
    /\ tlast' = Unquiet(tlast, k)
    /\ pending' = Enqueue(k)
    /\ UNCHANGED <<deployments, services, faults, tpc, tobj, deleted, redeleted>>

EditTerminal(k, img) ==
    /\ UNCHANGED <<uvars, scope, foreign>>
    /\ k \in DOMAIN terminals
    /\ terminals[k].image # img
    /\ terminals' = [terminals EXCEPT ![k].image = img]
    /\ tpass' = Touched(tpass, tpc, k)
    /\ tlast' = Unquiet(tlast, k)
    /\ pending' = Enqueue(k)
    /\ UNCHANGED <<deployments, services, faults, tpc, tobj, deleted, redeleted>>

\* a delete request sets the deletion timestamp; the object goes at once when
\* it carries no finalizer
DeleteTerminal(k) ==
    /\ UNCHANGED <<uvars, scope, foreign>>
    /\ k \in DOMAIN terminals
    /\ ~terminals[k].deleting
    /\ terminals' = Settle(terminals, k, [terminals[k] EXCEPT !.deleting = TRUE])
    /\ tpass' = Touched(tpass, tpc, k)
    /\ tlast' = Marked(tlast, k)
    /\ pending' = Enqueue(k)
    /\ UNCHANGED <<deployments, services, faults, tpc, tobj, deleted, redeleted>>

(* ------------------------- TerminalReconciler -------------------------- *)
\* the pass for `k` returns `res`; `upd` is the object a successful Update wrote
TerminalReturn(k, res, pass, upd) ==
    /\ tpc' = [tpc EXCEPT ![k] = "idle"]
    /\ tobj' = [tobj EXCEPT ![k] = NoObj]
    /\ tpass' = [tpass EXCEPT ![k] = NoPass]
    /\ tlast' = [tlast EXCEPT ![k] = Finished(pass, res, tpc[k], upd, {})]
    /\ deleted' = (deleted \cup pass.dels)
    /\ pending' = IF res = "err" \/ (upd # NoObj /\ upd # Lookup(terminals, k))
                  THEN Enqueue(k)
                  ELSE IF tpc[k] = "idle" THEN pending \ {k} ELSE pending

\* Reconcile, lines 162-166: fetch the Terminal
TerminalGet(k) ==
    /\ UNCHANGED <<uvars, scope, foreign>>
    /\ tpc[k] = "idle"
    /\ "Queue" \in scope => k \in pending
    /\ \E res \in Outcomes(IF k \in DOMAIN terminals THEN "ok" ELSE "NotFound") :
        LET pass == [NoPass EXCEPT !.obj = Lookup(terminals, k),
                                   !.pre = TerminalDerived(k),
                                   !.fault = (res = "Error"),
                                   !.prev = Prev(tlast[k])]
        IN  /\ Charge(res)
            /\ UNCHANGED <<terminals, deployments, services, redeleted>>
            /\ IF res = "ok"
               THEN /\ tpc' = [tpc EXCEPT ![k] = "deployment"]
                    /\ tobj' = [tobj EXCEPT ![k] = terminals[k]]
                    /\ tpass' = [tpass EXCEPT ![k] = pass]
                    /\ tlast' = Unquiet(tlast, k)
                    /\ pending' = pending \ {k}
                    /\ UNCHANGED deleted
               ELSE TerminalReturn(k, IF IgnoreNotFound(res) = "ok" THEN "ok" ELSE "err",
                                   pass, NoObj)

reconcileDeployment(k) ==
    /\ UNCHANGED <<uvars, scope, foreign>>
    /\ tpc[k] = "deployment"
    /\ LET deployment == deploymentForTerminal(k, tobj[k])
           id == <<"Deployment", deployment.key>>
       IN  IF tobj[k].deleting
           THEN IF ContainsFinalizer(tobj[k], TerminalDeploymentFinalizer)
                THEN \E res \in Outcomes(DeleteResult(deployments, deployment.key)) :
                       LET pass == [tpass[k] EXCEPT !.calls = @ + 1,
                                      !.fault = @ \/ res = "Error",
                                      !.notFound = @ \/ res = "NotFound",
                                      !.mutated = @ \/ res = "ok",
                                      !.dels = @ \cup (IF res = "ok" THEN {id} ELSE {})]
                       IN  /\ Charge(res)
                           /\ NoteDelete(id)
                           /\ deployments' = IF res = "ok"
                                             THEN Drop(deployments, deployment.key)
                                             ELSE deployments
                           /\ UNCHANGED <<terminals, services>>
                           /\ IF DeleteFailed(res)
                              THEN TerminalReturn(k, "err", pass, NoObj)
                              ELSE /\ tobj' = [tobj EXCEPT ![k] =
                                         RemoveFinalizer(@, TerminalDeploymentFinalizer)]
                                   /\ tpc' = [tpc EXCEPT ![k] = "service"]
                                   /\ tpass' = [tpass EXCEPT ![k] = pass]
                                   /\ UNCHANGED <<tlast, deleted, pending>>
                ELSE /\ tpc' = [tpc EXCEPT ![k] = "service"]
                     /\ UNCHANGED <<terminals, deployments, services, faults, tobj,
                                    tpass, tlast, deleted, redeleted, pending>>
           ELSE \E res \in Outcomes(CreateResult(deployments, deployment.key)) :
                  LET pass == [tpass[k] EXCEPT !.calls = @ + 1, !.fault = @ \/ res = "Error",
                                               !.mutated = @ \/ res = "ok",
                                               !.existed = @ \/ res = "AlreadyExists"]
                  IN  /\ Charge(res)
                      /\ deployments' = IF res = "ok"
                                        THEN Put(deployments, deployment.key, deployment)
                                        ELSE deployments
                      /\ UNCHANGED <<terminals, services, redeleted>>
                      /\ IF IgnoreAlreadyExists(res) # "ok"
                         THEN TerminalReturn(k, "err", pass, NoObj)
                         ELSE /\ tobj' = [tobj EXCEPT ![k] =
                                    AddFinalizer(@, TerminalDeploymentFinalizer)]
                              /\ tpc' = [tpc EXCEPT ![k] = "service"]
                              /\ tpass' = [tpass EXCEPT ![k] = pass]
                              /\ deleted' = IF res = "ok" THEN deleted \ {id} ELSE deleted
                              /\ UNCHANGED <<tlast, pending>>

reconcileService(k) ==
    /\ UNCHANGED <<uvars, scope, foreign>>
    /\ tpc[k] = "service"
    /\ LET service == serviceForTerminal(k, tobj[k])
           id == <<"Service", service.key>>
       IN  IF tobj[k].deleting
           THEN IF ContainsFinalizer(tobj[k], TerminalServiceFinalizer)
                THEN \E res \in Outcomes(DeleteResult(services, service.key)) :
                       LET pass == [tpass[k] EXCEPT !.calls = @ + 1,
                                      !.fault = @ \/ res = "Error",
                                      !.notFound = @ \/ res = "NotFound",
                                      !.mutated = @ \/ res = "ok",
                                      !.dels = @ \cup (IF res = "ok" THEN {id} ELSE {})]
                       IN  /\ Charge(res)
                           /\ NoteDelete(id)
                           /\ services' = IF res = "ok"
                                          THEN Drop(services, service.key)
                                          ELSE services
                           /\ UNCHANGED <<terminals, deployments>>
                           /\ IF DeleteFailed(res)
                              THEN TerminalReturn(k, "err", pass, NoObj)
                              ELSE /\ tobj' = [tobj EXCEPT ![k] =
                                         RemoveFinalizer(@, TerminalServiceFinalizer)]
                                   /\ tpc' = [tpc EXCEPT ![k] = "update"]
                                   /\ tpass' = [tpass EXCEPT ![k] = pass]
                                   /\ UNCHANGED <<tlast, deleted, pending>>
                ELSE /\ tpc' = [tpc EXCEPT ![k] = "update"]
                     /\ UNCHANGED <<terminals, deployments, services, faults, tobj,
                                    tpass, tlast, deleted, redeleted, pending>>
           ELSE \E res \in Outcomes(CreateResult(services, service.key)) :
                  LET pass == [tpass[k] EXCEPT !.calls = @ + 1, !.fault = @ \/ res = "Error",
                                               !.mutated = @ \/ res = "ok",
                                               !.existed = @ \/ res = "AlreadyExists"]
                  IN  /\ Charge(res)
                      /\ services' = IF res = "ok"
                                     THEN Put(services, service.key, service)
                                     ELSE services
                      /\ UNCHANGED <<terminals, deployments, redeleted>>
                      /\ IF IgnoreAlreadyExists(res) # "ok"
                         THEN TerminalReturn(k, "err", pass, NoObj)
                         ELSE /\ tobj' = [tobj EXCEPT ![k] =
                                    AddFinalizer(@, TerminalServiceFinalizer)]
                              /\ tpc' = [tpc EXCEPT ![k] = "update"]
                              /\ tpass' = [tpass EXCEPT ![k] = pass]
                              /\ deleted' = IF res = "ok" THEN deleted \ {id} ELSE deleted
                              /\ UNCHANGED <<tlast, pending>>

\* Reconcile, lines 178-183: write the Terminal back
TerminalUpdate(k) ==
    /\ UNCHANGED <<uvars, scope, foreign>>
    /\ tpc[k] = "update"
    /\ \E res \in Outcomes(IF k \notin DOMAIN terminals THEN "NotFound"
                           ELSE IF Outdated(tpass[k]) THEN "Conflict" ELSE "ok") :
        LET pass == [tpass[k] EXCEPT !.calls = @ + 1, !.fault = @ \/ res = "Error",
                                     !.mutated = @ \/ (res = "ok" /\ terminals[k] # tobj[k])]
        IN  /\ Charge(res)
            /\ terminals' = Persisted(terminals, k, tobj[k], res)
            /\ UNCHANGED <<deployments, services, redeleted>>
            /\ TerminalReturn(k, IF res = "ok" THEN "ok" ELSE "err", pass,
                              IF res = "ok" THEN tobj[k] ELSE NoObj)

TerminalNext ==
    \/ \E k \in TerminalsInPlay, img \in Images : CreateTerminal(k, img)
    \/ \E k \in TerminalsInPlay, img \in Images : EditTerminal(k, img)
    \/ \E k \in TerminalsInPlay : DeleteTerminal(k)
    \/ \E k \in TerminalsInPlay : TerminalGet(k)
    \/ \E k \in TerminalsInPlay : reconcileDeployment(k)
    \/ \E k \in TerminalsInPlay : reconcileService(k)
    \/ \E k \in TerminalsInPlay : TerminalUpdate(k)

InitTerminal == Init /\ scope = {"Terminal"}

SpecTerminal == InitTerminal /\ [][TerminalNext]_vars

(* the dispatcher's queue, and an actor who creates and deletes Deployments
   and Services *)
DerivedKinds == {"Deployment", "Service"}

\* an object that someone else puts under the name `key`
ForeignObject(kind, key) ==
    IF kind = "Deployment"
    THEN [key |-> key, image |-> "alpine:3", replicas |-> 1, container |-> "other"]
    ELSE [key |-> key, port |-> SSHPort, protocol |-> "TCP", targetPort |-> "other"]

\* SetupWithManager, Owns(&corev1.Service{}) / Owns(&appsv1.Deployment{}): an
\* event on a Service or Deployment asks for a pass for the Terminal that the
\* object's controller owner reference names. deploymentForTerminal and
\* serviceForTerminal set no owner reference, nor does the other actor.
RequestsFor(o) == IF "owner" \in DOMAIN o THEN {o.owner} ELSE {}

\* someone creates an object under the name derived from the Terminal k
ExternalCreate(kind, k) ==
    LET key == <<k[1], "marina-terminal-" \o k[2]>>
        o == ForeignObject(kind, key)
    IN  /\ UNCHANGED <<uvars, scope, terminals, faults, tpc, tobj, tpass, tlast, redeleted>>
        /\ IF kind = "Deployment"
           THEN /\ key \notin DOMAIN deployments
                /\ deployments' = Put(deployments, key, o)
                /\ UNCHANGED services
           ELSE /\ key \notin DOMAIN services
                /\ services' = Put(services, key, o)
                /\ UNCHANGED deployments
        /\ foreign' = foreign \cup {<<kind, key>>}
        /\ deleted' = deleted \ {<<kind, key>>}
        /\ pending' = pending \cup RequestsFor(o)

\* someone deletes the object under the name derived from the Terminal k
ExternalDelete(kind, k) ==
    LET key == <<k[1], "marina-terminal-" \o k[2]>>
    IN  /\ UNCHANGED <<uvars, scope, terminals, faults, tpc, tobj, tpass, tlast,
                       deleted, redeleted>>
        /\ IF kind = "Deployment"
           THEN /\ key \in DOMAIN deployments
                /\ deployments' = Drop(deployments, key)
                /\ pending' = pending \cup RequestsFor(deployments[key])
                /\ UNCHANGED services
           ELSE /\ key \in DOMAIN services
                /\ services' = Drop(services, key)
                /\ pending' = pending \cup RequestsFor(services[key])
                /\ UNCHANGED deployments
        /\ foreign' = foreign \ {<<kind, key>>}

\* the cache's periodic resync re-delivers the Terminals it holds
Resync(k) ==
    /\ UNCHANGED <<tvars, uvars, scope, foreign, faults, deleted, redeleted>>
    /\ k \in DOMAIN terminals
    /\ k \notin pending
    /\ pending' = Enqueue(k)

\* the image a Terminal is created with where Terminals are not edited
ImageFor(k) == IF k \in SoloTerminals THEN "busybox:1.36" ELSE "alpine:3"

\* the Terminal is created and deleted, not edited
WatchedNext ==
    \/ \E k \in TerminalsInPlay : CreateTerminal(k, ImageFor(k))
    \/ \E k \in TerminalsInPlay : DeleteTerminal(k)
    \/ \E k \in TerminalsInPlay : TerminalGet(k)
    \/ \E k \in TerminalsInPlay : reconcileDeployment(k)
    \/ \E k \in TerminalsInPlay : reconcileService(k)
    \/ \E k \in TerminalsInPlay : TerminalUpdate(k)
    \/ \E k \in TerminalsInPlay, kind \in DerivedKinds : ExternalCreate(kind, k)
    \/ \E k \in TerminalsInPlay, kind \in DerivedKinds : ExternalDelete(kind, k)
    \/ \E k \in TerminalsInPlay : Resync(k)

InitWatched == Fresh /\ faults = 0 /\ scope = {"Terminal", "Queue"}

SpecWatched == InitWatched /\ [][WatchedNext]_vars

\* two Terminals in one namespace, each with its own passes
InitTerminalPair == Fresh /\ faults = 0 /\ scope = {"Terminal", "Pair"}

\* the Terminals are created, each with its image, and deleted, not edited
TerminalPairNext ==
    \/ \E k \in TerminalsInPlay : CreateTerminal(k, ImageFor(k))
    \/ \E k \in TerminalsInPlay : DeleteTerminal(k)
    \/ \E k \in TerminalsInPlay : TerminalGet(k)
    \/ \E k \in TerminalsInPlay : reconcileDeployment(k)
    \/ \E k \in TerminalsInPlay : reconcileService(k)
    \/ \E k \in TerminalsInPlay : TerminalUpdate(k)

SpecTerminalPair == InitTerminalPair /\ [][TerminalPairNext]_vars

(* ---------------------------- UserReconciler --------------------------- *)
\* user_controller.go:18-21
UserServiceAccountFinalizer == "marina.io.serviceaccount/finalizer"
UserRoleBindingFinalizer == "marina.io.rolebinding/finalizer"

serviceAccountForUser(key, user) == [key |-> <<key[1], key[2]>>]

userRoleBindingForRole(key, user, role) ==
    [key |-> <<key[1], key[2] \o "-" \o role>>,
     subject |-> [kind |-> "ServiceAccount", name |-> key[2], namespace |-> key[1]],
     roleRef |-> [kind |-> "Role", name |-> role]]

RECURSIVE SeqsUpTo(_, _)
\* all sequences over S of length at most n
SeqsUpTo(S, n) ==
    IF n = 0 THEN {<<>>}
    ELSE LET shorter == SeqsUpTo(S, n - 1)
         IN  shorter \cup {Append(q, x) : q \in {q \in shorter : Len(q) = n - 1}, x \in S}

RoleLists == SeqsUpTo(RoleNames, MaxRoles)

\* the role list each of two Users is created with: "a" with "b-c", "a-b"
\* with "c"
PairRoles(k) == IF k[2] = "a" THEN <<"b-c">> ELSE <<"c">>

\* the role lists one edit of spec.roles away from rs: a role appended, or
\* one entry taken out
Without(rs, i) == [j \in 1..(Len(rs) - 1) |-> IF j < i THEN rs[j] ELSE rs[j + 1]]

Edits(rs) ==
    {Append(rs, r) : r \in IF Len(rs) < MaxRoles THEN RoleNames ELSE {}}
        \cup {Without(rs, i) : i \in 1..Len(rs)}

\* the roles listed by the User `user` for which the store holds no Role
MissingRoles(key, user) ==
    IF user = NoObj THEN {}
    ELSE {user.roles[i] : i \in {j \in 1..Len(user.roles) :
                                    <<key[1], user.roles[j]>> \notin DOMAIN roles}}

(* external actors *)
CreateUser(k, rs) ==
    /\ UNCHANGED <<tvars, scope, foreign, pending>>
    /\ k \notin DOMAIN users
    /\ users' = Put(users, k, [roles |-> rs, deleting |-> FALSE, finalizers |-> {}])
    /\ upass' = Touched(upass, upc, k)
    /\ ulast' = Unquiet(ulast, k)
    /\ UNCHANGED <<serviceaccounts, rolebindings, roles, upc, uobj, uidx,
                   faults, deleted, redeleted>>

\* spec.roles is replaced: a role is appended, or one is taken out
EditUser(k, rs) ==
    /\ UNCHANGED <<tvars, scope, foreign, pending>>
    /\ k \in DOMAIN users
    /\ users' = [users EXCEPT ![k].roles = rs]
    /\ upass' = Touched(upass, upc, k)
    /\ ulast' = Unquiet(ulast, k)
    /\ UNCHANGED <<serviceaccounts, rolebindings, roles, upc, uobj, uidx,
                   faults, deleted, redeleted>>

DeleteUser(k) ==
    /\ UNCHANGED <<tvars, scope, foreign, pending>>
    /\ k \in DOMAIN users
    /\ ~users[k].deleting
    /\ users' = Settle(users, k, [users[k] EXCEPT !.deleting = TRUE])
    /\ upass' = Touched(upass, upc, k)
    /\ ulast' = Marked(ulast, k)
    /\ UNCHANGED <<serviceaccounts, rolebindings, roles, upc, uobj, uidx,
                   faults, deleted, redeleted>>

CreateRole(ns, r) ==
    /\ UNCHANGED <<tvars, scope, foreign, pending>>
    /\ <<ns, r>> \notin DOMAIN roles
    /\ roles' = Put(roles, <<ns, r>>, [key |-> <<ns, r>>])
    /\ UNCHANGED <<users, serviceaccounts, rolebindings, upc, uobj, uidx, upass,
                   ulast, faults, deleted, redeleted>>

\* the pass for `k` returns `res`; `upd` is the object a successful Update wrote
UserReturn(k, res, pass, upd) ==
    /\ upc' = [upc EXCEPT ![k] = "idle"]
    /\ uobj' = [uobj EXCEPT ![k] = NoObj]
    /\ uidx' = [uidx EXCEPT ![k] = 0]
    /\ upass' = [upass EXCEPT ![k] = NoPass]
    /\ ulast' = [ulast EXCEPT ![k] = Finished(pass, res, upc[k], upd, MissingRoles(k, pass.obj))]
    /\ deleted' = (deleted \cup pass.dels)

\* Reconcile, lines 132-137: fetch the User
UserGet(k) ==
    /\ UNCHANGED <<tvars, scope, foreign, pending>>
    /\ upc[k] = "idle"
    /\ \E res \in Outcomes(IF k \in DOMAIN users THEN "ok" ELSE "NotFound") :
        LET pass == [NoPass EXCEPT !.obj = Lookup(users, k),
                                   !.pre = rolebindings,
                                   !.fault = (res = "Error"),
                                   !.prev = Prev(ulast[k])]
        IN  /\ Charge(res)
            /\ UNCHANGED <<users, serviceaccounts, rolebindings, roles, redeleted>>
            /\ IF res = "ok"
               THEN /\ upc' = [upc EXCEPT ![k] = "serviceaccount"]
                    /\ uobj' = [uobj EXCEPT ![k] = users[k]]
                    /\ upass' = [upass EXCEPT ![k] = pass]
                    /\ ulast' = Unquiet(ulast, k)
                    /\ UNCHANGED <<uidx, deleted>>
               ELSE UserReturn(k, IF IgnoreNotFound(res) = "ok" THEN "ok" ELSE "err",
                               pass, NoObj)

reconcileServiceAccount(k) ==
    /\ UNCHANGED <<tvars, scope, foreign, pending>>
    /\ upc[k] = "serviceaccount"
    /\ LET serviceAccount == serviceAccountForUser(k, uobj[k])
           id == <<"ServiceAccount", serviceAccount.key>>
       IN  IF uobj[k].deleting
           THEN IF ContainsFinalizer(uobj[k], UserServiceAccountFinalizer)
                THEN \E res \in Outcomes(DeleteResult(serviceaccounts, serviceAccount.key)) :
                       LET pass == [upass[k] EXCEPT !.calls = @ + 1,
                                      !.fault = @ \/ res = "Error",
                                      !.notFound = @ \/ res = "NotFound",
                                      !.mutated = @ \/ res = "ok",
                                      !.dels = @ \cup (IF res = "ok" THEN {id} ELSE {})]
                       IN  /\ Charge(res)
                           /\ NoteDelete(id)
                           /\ serviceaccounts' = IF res = "ok"
                                                 THEN Drop(serviceaccounts, serviceAccount.key)
                                                 ELSE serviceaccounts
                           /\ UNCHANGED <<users, rolebindings, roles>>
                           /\ IF DeleteFailed(res)
                              THEN UserReturn(k, "err", pass, NoObj)
                              ELSE /\ uobj' = [uobj EXCEPT ![k] =
                                         RemoveFinalizer(@, UserServiceAccountFinalizer)]
                                   /\ upc' = [upc EXCEPT ![k] = "rolebindings"]
                                   /\ uidx' = [uidx EXCEPT ![k] = 1]
                                   /\ upass' = [upass EXCEPT ![k] = pass]
                                   /\ UNCHANGED <<ulast, deleted>>
                ELSE /\ upc' = [upc EXCEPT ![k] = "rolebindings"]
                     /\ uidx' = [uidx EXCEPT ![k] = 1]
                     /\ UNCHANGED <<users, serviceaccounts, rolebindings, roles, faults,
                                    uobj, upass, ulast, deleted, redeleted>>
           ELSE \E res \in Outcomes(CreateResult(serviceaccounts, serviceAccount.key)) :
                  LET pass == [upass[k] EXCEPT !.calls = @ + 1, !.fault = @ \/ res = "Error",
                                               !.mutated = @ \/ res = "ok",
                                               !.existed = @ \/ res = "AlreadyExists"]
                  IN  /\ Charge(res)
                      /\ serviceaccounts' = IF res = "ok"
                                            THEN Put(serviceaccounts, serviceAccount.key,
                                                     serviceAccount)
                                            ELSE serviceaccounts
                      /\ UNCHANGED <<users, rolebindings, roles, redeleted>>
                      /\ IF IgnoreAlreadyExists(res) # "ok"
                         THEN UserReturn(k, "err", pass, NoObj)
                         ELSE /\ uobj' = [uobj EXCEPT ![k] =
                                    AddFinalizer(@, UserServiceAccountFinalizer)]
                              /\ upc' = [upc EXCEPT ![k] = "rolebindings"]
                              /\ uidx' = [uidx EXCEPT ![k] = 1]
                              /\ upass' = [upass EXCEPT ![k] = pass]
                              /\ deleted' = IF res = "ok" THEN deleted \ {id} ELSE deleted
                              /\ UNCHANGED ulast

\* what the binding loop does with the answer of Create (lines 116-119):
\* "stop" leaves reconcileRoleBindings with a nil error, "next" goes on with
\* the next role, "fail" leaves it with the error
AfterCreateBinding(res) ==
    IF res = "ok" THEN "next"
    ELSE IF IgnoreAlreadyExists(res) = "ok" THEN "stop" ELSE "fail"

\* the RoleBindings in the store after Create of `binding` answered res
\* (line 116): the create path writes the new binding and nothing else
RoleBindingsAfterCreate_Pruned(store, binding, res) ==
    IF res = "ok" THEN Put(EmptyStore, binding.key, binding) ELSE store

RoleBindingsAfterCreate(store, binding, res) ==
    IF res = "ok" THEN Put(store, binding.key, binding) ELSE store

\* the Roles in the store after Create of `binding` (line 116): the binding
\* names its Role in roleRef and the pass leaves the Roles alone, also when
\* the Role it names is not there
RolesAfterCreate_Supplied(store, binding, res) ==
    IF res = "ok"
    THEN Put(store, <<binding.key[1], binding.roleRef.name>>,
             [key |-> <<binding.key[1], binding.roleRef.name>>])
    ELSE store

RolesAfterCreate(store, binding, res) == store

\* lines 96-100: before the loop, whatever the role list, a User without
\* deletion timestamp gets the binding finalizer
WithBindingFinalizer_InLoop(user) ==
    IF ~user.deleting /\ Len(user.roles) > 0
    THEN AddFinalizer(user, UserRoleBindingFinalizer)
    ELSE user

WithBindingFinalizer(user) ==
    IF ~user.deleting THEN AddFinalizer(user, UserRoleBindingFinalizer) ELSE user

\* one turn of the loop of reconcileRoleBindings (uidx is the role it is at),
\* or the code after the loop
reconcileRoleBindings(k) ==
    /\ UNCHANGED <<tvars, scope, foreign, pending>>
    /\ upc[k] = "rolebindings"
    /\ LET isDeleting == uobj[k].deleting
           \* lines 98-100, before the loop (adding twice changes nothing)
           user == WithBindingFinalizer(uobj[k])
       IN  IF uidx[k] > Len(user.roles)
           THEN \* lines 123-127
                /\ uobj' = [uobj EXCEPT ![k] =
                              IF isDeleting
                              THEN RemoveFinalizer(user, UserRoleBindingFinalizer)
                              ELSE user]
                /\ upc' = [upc EXCEPT ![k] = "update"]
                /\ uidx' = [uidx EXCEPT ![k] = 0]
                /\ UNCHANGED <<users, serviceaccounts, rolebindings, roles, faults,
                               upass, ulast, deleted, redeleted>>
           ELSE LET binding == userRoleBindingForRole(k, user, user.roles[uidx[k]])
                    id == <<"RoleBinding", binding.key>>
                IN  IF isDeleting
                    THEN IF ContainsFinalizer(user, UserRoleBindingFinalizer)
                         THEN \E res \in Outcomes(DeleteResult(rolebindings, binding.key)) :
                                LET pass == [upass[k] EXCEPT !.calls = @ + 1,
                                               !.fault = @ \/ res = "Error",
                                               !.notFound = @ \/ res = "NotFound",
                                               !.mutated = @ \/ res = "ok",
                                      !.dels = @ \cup (IF res = "ok" THEN {id} ELSE {})]
                                IN  /\ Charge(res)
                                    /\ NoteDelete(id)
                                    /\ rolebindings' = IF res = "ok"
                                                       THEN Drop(rolebindings, binding.key)
                                                       ELSE rolebindings
                                    /\ UNCHANGED <<users, serviceaccounts, roles>>
                                    /\ IF DeleteFailed(res)
                                       THEN UserReturn(k, "err", pass, NoObj)
                                       ELSE /\ uidx' = [uidx EXCEPT ![k] = @ + 1]
                                            /\ upass' = [upass EXCEPT ![k] = pass]
                                            /\ UNCHANGED <<upc, uobj, ulast, deleted>>
                         ELSE /\ uidx' = [uidx EXCEPT ![k] = @ + 1]
                              /\ UNCHANGED <<users, serviceaccounts, rolebindings, roles,
                                             faults, upc, uobj, upass, ulast, deleted,
                                             redeleted>>
                    ELSE \E res \in Outcomes(CreateResult(rolebindings, binding.key)) :
                           LET pass == [upass[k] EXCEPT !.calls = @ + 1, !.fault = @ \/ res = "Error",
                                                        !.mutated = @ \/ res = "ok",
                                               !.existed = @ \/ res = "AlreadyExists"]
                               then == AfterCreateBinding(res)
                           IN  /\ Charge(res)
                               /\ rolebindings' = RoleBindingsAfterCreate(rolebindings, binding, res)
                               /\ roles' = RolesAfterCreate(roles, binding, res)
                               /\ UNCHANGED <<users, serviceaccounts, redeleted>>
                               /\ IF then = "fail"
                                  THEN UserReturn(k, "err", pass, NoObj)
                                  ELSE /\ uobj' = [uobj EXCEPT ![k] = user]
                                       /\ upc' = [upc EXCEPT ![k] =
                                                    IF then = "stop" THEN "update" ELSE @]
                                       /\ uidx' = [uidx EXCEPT ![k] =
                                                     IF then = "stop" THEN 0 ELSE @ + 1]
                                       /\ upass' = [upass EXCEPT ![k] = pass]
                                       /\ deleted' = IF res = "ok" THEN deleted \ {id}
                                                     ELSE deleted
                                       /\ UNCHANGED ulast

\* Reconcile, lines 150-155: write the User back
UserUpdate(k) ==
    /\ UNCHANGED <<tvars, scope, foreign, pending>>
    /\ upc[k] = "update"
    /\ \E res \in Outcomes(IF k \notin DOMAIN users THEN "NotFound"
                           ELSE IF Outdated(upass[k]) THEN "Conflict" ELSE "ok") :
        LET pass == [upass[k] EXCEPT !.calls = @ + 1, !.fault = @ \/ res = "Error",
                                     !.mutated = @ \/ (res = "ok" /\ users[k] # uobj[k])]
        IN  /\ Charge(res)
            /\ users' = Persisted(users, k, uobj[k], res)
            /\ UNCHANGED <<serviceaccounts, rolebindings, roles, redeleted>>
            /\ UserReturn(k, IF res = "ok" THEN "ok" ELSE "err", pass,
                          IF res = "ok" THEN uobj[k] ELSE NoObj)

UserNext ==
    \/ \E k \in UsersInPlay, rs \in RoleLists : CreateUser(k, rs)
    \/ \E k \in DOMAIN users : \E rs \in Edits(users[k].roles) : EditUser(k, rs)
    \/ \E k \in UsersInPlay : DeleteUser(k)
    \/ \E ns \in Namespaces, r \in RoleNames : CreateRole(ns, r)
    \/ \E k \in UsersInPlay : UserGet(k)
    \/ \E k \in UsersInPlay : reconcileServiceAccount(k)
    \/ \E k \in UsersInPlay : reconcileRoleBindings(k)
    \/ \E k \in UsersInPlay : UserUpdate(k)

InitUser == Init /\ scope = {"User"}

SpecUser == InitUser /\ [][UserNext]_vars

\* two Users in one namespace, each with its own passes; the Users are
\* created and deleted, not edited, and the store answers without
\* unspecific errors
InitUserPair == Fresh /\ faults = MaxFaults /\ scope = {"User", "Pair"}

UserPairNext ==
    \/ \E k \in UsersInPlay : CreateUser(k, PairRoles(k))
    \/ \E k \in UsersInPlay : DeleteUser(k)
    \/ \E k \in UsersInPlay : UserGet(k)
    \/ \E k \in UsersInPlay : reconcileServiceAccount(k)
    \/ \E k \in UsersInPlay : reconcileRoleBindings(k)
    \/ \E k \in UsersInPlay : UserUpdate(k)

SpecUserPair == InitUserPair /\ [][UserPairNext]_vars

\* The two reconcilers share no state and manage disjoint kinds: a behaviour
\* has the primary objects of one of them.
Next ==
    \/ \E k \in TerminalsInPlay, img \in Images : "Terminal" \in scope /\ CreateTerminal(k, img)
    \/ \E k \in TerminalsInPlay, img \in Images : "Terminal" \in scope /\ EditTerminal(k, img)
    \/ \E k \in TerminalsInPlay : "Terminal" \in scope /\ DeleteTerminal(k)
    \/ \E k \in TerminalsInPlay : "Terminal" \in scope /\ TerminalGet(k)
    \/ \E k \in TerminalsInPlay : "Terminal" \in scope /\ reconcileDeployment(k)
    \/ \E k \in TerminalsInPlay : "Terminal" \in scope /\ reconcileService(k)
    \/ \E k \in TerminalsInPlay : "Terminal" \in scope /\ TerminalUpdate(k)
    \/ \E k \in UsersInPlay, rs \in RoleLists : "User" \in scope /\ CreateUser(k, rs)
    \/ \E k \in DOMAIN users : \E rs \in Edits(users[k].roles) :
          "User" \in scope /\ EditUser(k, rs)
    \/ \E k \in UsersInPlay : "User" \in scope /\ DeleteUser(k)
    \/ \E ns \in Namespaces, r \in RoleNames : "User" \in scope /\ CreateRole(ns, r)
    \/ \E k \in UsersInPlay : "User" \in scope /\ UserGet(k)
    \/ \E k \in UsersInPlay : "User" \in scope /\ reconcileServiceAccount(k)
    \/ \E k \in UsersInPlay : "User" \in scope /\ reconcileRoleBindings(k)
    \/ \E k \in UsersInPlay : "User" \in scope /\ UserUpdate(k)

Spec == Init /\ [][Next]_vars

(* ------------------------------ fairness ------------------------------- *)
\* the dispatcher delivers at least once and retries a failed pass: a pass
\* that can take its next step takes it
TerminalPass(k) ==
    /\ k \in TerminalsInPlay
    /\ TerminalGet(k) \/ reconcileDeployment(k) \/ reconcileService(k) \/ TerminalUpdate(k)

FairSpecTerminal ==
    /\ InitTerminal
    /\ [][TerminalNext]_vars
    /\ \A k \in SoloTerminals : WF_vars(TerminalPass(k))

UserPass(k) ==
    /\ k \in UsersInPlay
    /\ UserGet(k) \/ reconcileServiceAccount(k) \/ reconcileRoleBindings(k) \/ UserUpdate(k)

FairSpecUser ==
    /\ InitUser
    /\ [][UserNext]_vars
    /\ \A k \in SoloUsers : WF_vars(UserPass(k))

(* ------------------------------- claims -------------------------------- *)
DerivedName(k) == <<k[1], "marina-terminal-" \o k[2]>>

BindingName(k, role) == <<k[1], k[2] \o "-" \o role>>

\* a pass that ran undisturbed: no injected store error, no outside write to
\* its primary object while it was in flight
Undisturbed(l) == ~l.fault /\ ~l.stale

\* every role of the list rs has a binding of the User k, with the User's
\* Identity as subject and the role as role reference
AllBound(k, rs) ==
    \A i \in 1..Len(rs) :
        /\ BindingName(k, rs[i]) \in DOMAIN rolebindings
        /\ rolebindings[BindingName(k, rs[i])].subject.name = k[2]
        /\ rolebindings[BindingName(k, rs[i])].subject.kind = "ServiceAccount"
        /\ rolebindings[BindingName(k, rs[i])].roleRef.name = rs[i]

NoneBound(k, rs) ==
    \A i \in 1..Len(rs) : BindingName(k, rs[i]) \notin DOMAIN rolebindings

\* C1: a successful pass over a new, non-deleting Terminal with image I and no
\* derived object yet leaves a Deployment and a Service named
\* "marina-terminal-" + name in the Terminal's namespace; the Deployment runs
\* image I and the Service exposes TCP port 22.
C1_NewTerminalConverges ==
    \A k \in TerminalKeys :
        LET l == tlast[k] IN
        (/\ l.res = "ok"
         /\ l.obj # NoObj
         /\ ~l.obj.deleting
         /\ l.obj.finalizers = {}
         /\ l.pre.deployment = NoObj
         /\ l.pre.service = NoObj)
        => /\ DerivedName(k) \in DOMAIN deployments
           /\ deployments[DerivedName(k)].image = l.obj.image
           /\ DerivedName(k) \in DOMAIN services
           /\ services[DerivedName(k)].port = 22
           /\ services[DerivedName(k)].protocol = "TCP"

C1_Witness ==
    \E k \in TerminalKeys :
        /\ tlast[k].res = "ok"
        /\ tlast[k].obj # NoObj
        /\ ~tlast[k].obj.deleting
        /\ tlast[k].obj.finalizers = {}
        /\ tlast[k].pre.deployment = NoObj
        /\ tlast[k].pre.service = NoObj
        /\ tlast[k].stage = "update"
        /\ DerivedName(k) \in DOMAIN deployments

\* C2: an undisturbed pass over a Terminal marked for deletion that has both
\* derived objects and both finalizers returns success, leaves neither
\* derived object in the store and writes an empty finalizer list, so the
\* Terminal is gone from the store.
C2_DeletionConverges ==
    \A k \in TerminalKeys :
        LET l == tlast[k] IN
        (/\ l.res # Nil
         /\ l.obj # NoObj
         /\ l.obj.deleting
         /\ l.obj.finalizers = TerminalFinalizers
         /\ l.pre.deployment # NoObj
         /\ l.pre.service # NoObj
         /\ Undisturbed(l))
        => /\ l.res = "ok"
           /\ DerivedName(k) \notin DOMAIN deployments
           /\ DerivedName(k) \notin DOMAIN services
           /\ l.updated # NoObj
           /\ l.updated.finalizers = {}
           /\ k \notin DOMAIN terminals

C2_Witness ==
    \E k \in TerminalKeys :
        /\ tlast[k].res = "ok"
        /\ tlast[k].obj # NoObj
        /\ tlast[k].obj.deleting
        /\ tlast[k].obj.finalizers = TerminalFinalizers
        /\ tlast[k].pre.deployment # NoObj
        /\ tlast[k].pre.service # NoObj
        /\ k \notin DOMAIN terminals

\* C3 (as claimed): after a successful pass over a non-deleting User whose
\* listed Roles all exist, the ServiceAccount exists and every listed role has
\* its binding "<user>-<role>" (subject the ServiceAccount, role reference
\* the role), whatever bindings existed before the pass.
C3_AllRolesBound ==
    \A k \in UserKeys :
        LET l == ulast[k] IN
        (/\ l.res = "ok"
         /\ l.obj # NoObj
         /\ ~l.obj.deleting
         /\ l.missing = {})
        => /\ <<k[1], k[2]>> \in DOMAIN serviceaccounts
           /\ AllBound(k, l.obj.roles)

\* C4 (as claimed): an undisturbed pass over a User that was reconciled with
\* success and then marked for deletion returns success and leaves no
\* ServiceAccount, no binding of a listed role, and no User.
C4_UserDeletionConverges ==
    \A k \in UserKeys :
        LET l == ulast[k] IN
        (/\ l.res # Nil
         /\ l.obj # NoObj
         /\ l.obj.deleting
         /\ l.prev.res = "ok"
         /\ l.prev.marked
         /\ Undisturbed(l))
        => /\ l.res = "ok"
           /\ <<k[1], k[2]>> \notin DOMAIN serviceaccounts
           /\ NoneBound(k, l.obj.roles)
           /\ k \notin DOMAIN users

\* C5: when a pass has just succeeded and nothing has touched the primary
\* object since, the next undisturbed pass also succeeds and none of its
\* store calls changes the store.
C5_SecondPassChangesNothing ==
    /\ \A k \in TerminalKeys :
        LET l == tlast[k] IN
        (l.res # Nil /\ l.prev.res = "ok" /\ ~l.prev.marked /\ Undisturbed(l))
        => (l.res = "ok" /\ ~l.mutated)
    /\ \A k \in UserKeys :
        LET l == ulast[k] IN
        (l.res # Nil /\ l.prev.res = "ok" /\ ~l.prev.marked /\ Undisturbed(l))
        => (l.res = "ok" /\ ~l.mutated)

C5_Witness ==
    \E k \in UserKeys :
        /\ ulast[k].res = "ok"
        /\ ulast[k].prev.res = "ok"
        /\ ~ulast[k].prev.marked
        /\ ulast[k].obj # NoObj
        /\ Len(ulast[k].obj.roles) = 2
        /\ ulast[k].stage = "update"

\* the first position of the list rs whose role is in the set `missing`
FirstMissing(rs, missing) ==
    CHOOSE i \in 1..Len(rs) :
        rs[i] \in missing /\ \A j \in 1..(i - 1) : rs[j] \notin missing

\* C6 (as claimed): an undisturbed pass over a non-deleting User that lists a
\* role with no Role object returns an error; the roles before the missing
\* one have their bindings, the missing one and those after it have none.
C6_MissingRoleFails ==
    \A k \in UserKeys :
        LET l == ulast[k] IN
        (/\ l.res # Nil
         /\ l.obj # NoObj
         /\ ~l.obj.deleting
         /\ l.missing # {}
         /\ Undisturbed(l))
        => LET m == FirstMissing(l.obj.roles, l.missing) IN
           /\ l.res = "err"
           /\ AllBound(k, SubSeq(l.obj.roles, 1, m - 1))
           /\ NoneBound(k, SubSeq(l.obj.roles, m, Len(l.obj.roles)))

\* C7 (as claimed): when a pass failed in the binding loop while a listed Role
\* was missing, and the Roles are all there now, the next undisturbed pass
\* succeeds and every listed role has its binding.
C7_RetryCompletes ==
    \A k \in UserKeys :
        LET l == ulast[k] IN
        (/\ l.res # Nil
         /\ l.obj # NoObj
         /\ ~l.obj.deleting
         /\ l.prev.res = "err"
         /\ l.prev.stage = "rolebindings"
         /\ l.prev.missing # {}
         /\ l.missing = {}
         /\ Undisturbed(l))
        => /\ l.res = "ok"
           /\ AllBound(k, l.obj.roles)

\* C8 (as claimed): a pass on the delete path in which Delete of a derived
\* object answered NotFound, and that met no other trouble, returns success.
C8_NotFoundOnDeleteIsBenign ==
    /\ \A k \in TerminalKeys :
        (tlast[k].notFound /\ Undisturbed(tlast[k])) => tlast[k].res = "ok"
    /\ \A k \in UserKeys :
        (ulast[k].notFound /\ Undisturbed(ulast[k])) => ulast[k].res = "ok"

\* a deletion pass has deleted the Deployment and failed on the Service
PartialTeardown(k) ==
    /\ k \in DOMAIN terminals
    /\ terminals[k].deleting
    /\ tlast[k].res = "err"
    /\ tlast[k].stage = "service"
    /\ DerivedName(k) \notin DOMAIN deployments
    /\ DerivedName(k) \in DOMAIN services

Released(k) ==
    /\ k \notin DOMAIN terminals
    /\ DerivedName(k) \notin DOMAIN deployments
    /\ DerivedName(k) \notin DOMAIN services

\* C9 (as claimed): after a deletion pass that deleted the Deployment and
\* failed on the Service, retried passes eventually release the Terminal:
\* both derived objects absent, no finalizer left.
C9_PartialTeardownResumes ==
    \A k \in TerminalKeys : PartialTeardown(k) ~> Released(k)

\* C10 (as claimed): once a pass has deleted a derived object, no later pass
\* issues Delete for that object again.
C10_DeletedAtMostOnce == redeleted = {}

\* C11: a pass on the create/update path (the User it read carries no
\* deletion timestamp) leaves every binding that was in the store when it
\* started in the store, unchanged: also the binding of a role that has been
\* taken out of spec.roles.
C11_OrphanBindingStays ==
    \A k \in UserKeys :
        LET l == ulast[k] IN
        (l.res # Nil /\ l.obj # NoObj /\ ~l.obj.deleting)
        => \A b \in DOMAIN l.pre :
              b \in DOMAIN rolebindings /\ rolebindings[b] = l.pre[b]

\* a successful pass over a User whose list no longer names a role that has a
\* binding, and that created a binding for another role
C11_Witness ==
    \E k \in UserKeys : \E r \in RoleNames :
        /\ ulast[k].res = "ok"
        /\ ulast[k].obj # NoObj
        /\ ~ulast[k].obj.deleting
        /\ \A i \in 1..Len(ulast[k].obj.roles) : ulast[k].obj.roles[i] # r
        /\ ulast[k].mutated
        /\ BindingName(k, r) \in DOMAIN ulast[k].pre
        /\ BindingName(k, r) \in DOMAIN rolebindings

\* a pass for the primary object has finished, none is in flight, and no
\* delete request has come in since
TerminalBoundary(k) == tpc[k] = "idle" /\ tlast[k].res # Nil /\ ~tlast[k].marked

UserBoundary(k) == upc[k] = "idle" /\ ulast[k].res # Nil /\ ~ulast[k].marked

\* the pass read its primary object, and read it without deletion timestamp
CreatePath(l) == l.obj # NoObj /\ ~l.obj.deleting

\* the store holds the primary object, without deletion timestamp and with
\* the finalizer f
Owning(store, k, f) ==
    /\ k \in DOMAIN store
    /\ ~store[k].deleting
    /\ f \in store[k].finalizers

\* the bindings in the store whose subject is the Identity of the User k
BindingsOf(k) ==
    {b \in DOMAIN rolebindings :
        rolebindings[b].subject.name = k[2] /\ rolebindings[b].subject.namespace = k[1]}

\* C12 (as claimed): at the pass boundary after a pass on the create/update
\* path, successful or failed, a derived object in the store has its primary
\* object in the store, not marked for deletion and carrying the finalizer
\* of the derived kind.
C12_DerivedHasOwner ==
    /\ \A k \in TerminalKeys :
        (TerminalBoundary(k) /\ CreatePath(tlast[k])) =>
            /\ (DerivedName(k) \in DOMAIN deployments
                    => Owning(terminals, k, TerminalDeploymentFinalizer))
            /\ (DerivedName(k) \in DOMAIN services
                    => Owning(terminals, k, TerminalServiceFinalizer))
    /\ \A k \in UserKeys :
        (UserBoundary(k) /\ CreatePath(ulast[k])) =>
            /\ (<<k[1], k[2]>> \in DOMAIN serviceaccounts
                    => Owning(users, k, UserServiceAccountFinalizer))
            /\ (BindingsOf(k) # {}
                    => Owning(users, k, UserRoleBindingFinalizer))

\* C13 (as claimed): at the pass boundary after a successful pass, a primary
\* object in the store that is
\* not marked for deletion and carries the finalizer of a derived kind has
\* every derived object of that kind its spec implies: the Deployment, the
\* Service, the ServiceAccount, a binding for every role of spec.roles.
C13_OwnerHasDerived ==
    /\ \A k \in TerminalKeys :
        (TerminalBoundary(k) /\ tlast[k].res = "ok") =>
            /\ (Owning(terminals, k, TerminalDeploymentFinalizer)
                    => DerivedName(k) \in DOMAIN deployments)
            /\ (Owning(terminals, k, TerminalServiceFinalizer)
                    => DerivedName(k) \in DOMAIN services)
    /\ \A k \in UserKeys :
        (UserBoundary(k) /\ ulast[k].res = "ok") =>
            /\ (Owning(users, k, UserServiceAccountFinalizer)
                    => <<k[1], k[2]>> \in DOMAIN serviceaccounts)
            /\ (Owning(users, k, UserRoleBindingFinalizer)
                    => AllBound(k, users[k].roles))

\* C14 (as claimed): after a successful pass over a non-deleting User the
\* store holds as many bindings of that User as spec.roles has entries, and at
\* most one ServiceAccount of that User.
C14_OneBindingPerEntry ==
    \A k \in UserKeys :
        LET l == ulast[k] IN
        (l.res = "ok" /\ l.obj # NoObj /\ ~l.obj.deleting)
        => /\ Cardinality(BindingsOf(k)) = Len(l.obj.roles)
           /\ Cardinality({a \in DOMAIN serviceaccounts : a = <<k[1], k[2]>>}) <= 1

\* the pass asked for its primary object and the store answered NotFound
PrimaryNotFound(l) == l.res # Nil /\ l.obj = NoObj /\ ~l.fault

C16_AlreadyExistsIsSuccess ==
    /\ \A k \in TerminalKeys :
        LET l == tlast[k] IN
        (l.res # Nil /\ l.existed /\ Undisturbed(l))
        => /\ l.res = "ok"
           /\ l.updated # NoObj
           /\ DerivedName(k) \in DOMAIN deployments
           /\ DerivedName(k) \in DOMAIN services
           /\ l.pre.deployment # NoObj => deployments[DerivedName(k)] = l.pre.deployment
           /\ l.pre.service # NoObj => services[DerivedName(k)] = l.pre.service
    /\ \A k \in UserKeys :
        LET l == ulast[k] IN
        (l.res # Nil /\ l.existed /\ Undisturbed(l))
        => /\ l.res = "ok"
           /\ l.updated # NoObj
           /\ <<k[1], k[2]>> \in DOMAIN serviceaccounts
           /\ AllBound(k, l.obj.roles)
           /\ \A b \in DOMAIN l.pre :
                 b \in DOMAIN rolebindings /\ rolebindings[b] = l.pre[b]

\* C17: after a pass that returned an error, whichever store call failed, the
\* primary object in the store carries the finalizer list the pass read at
\* its Get: nothing the pass added or removed in memory has been persisted.
C17_FailedPassKeepsFinalizers ==
    /\ \A k \in TerminalKeys :
        LET l == tlast[k] IN
        (l.res = "err" /\ l.obj # NoObj /\ k \in DOMAIN terminals)
        => terminals[k].finalizers = l.obj.finalizers
    /\ \A k \in UserKeys :
        LET l == ulast[k] IN
        (l.res = "err" /\ l.obj # NoObj /\ k \in DOMAIN users)
        => users[k].finalizers = l.obj.finalizers

\* a pass created the Deployment, added its finalizer in memory, and failed
\* on the Service
C17_Witness ==
    \E k \in TerminalKeys :
        /\ tlast[k].res = "err"
        /\ tlast[k].stage = "service"
        /\ tlast[k].fault
        /\ tlast[k].mutated
        /\ tlast[k].obj # NoObj
        /\ ~tlast[k].obj.deleting
        /\ k \in DOMAIN terminals
        /\ terminals[k].finalizers = {}

\* the Terminal is in the store without deletion timestamp, with image img
Settled(k, img) ==
    /\ k \in DOMAIN terminals
    /\ ~terminals[k].deleting
    /\ terminals[k].image = img

\* both derived objects exist and both finalizers are persisted
Converged(k) ==
    /\ k \in DOMAIN terminals
    /\ ~terminals[k].deleting
    /\ terminals[k].finalizers = TerminalFinalizers
    /\ DerivedName(k) \in DOMAIN deployments
    /\ DerivedName(k) \in DOMAIN services

\* C18: when from some point on a Terminal stays in the store, not marked for
\* deletion and with its spec unchanged, then (passes being retried, one at
\* a time, and the store failing only finitely often) from some point on both
\* derived objects exist and both finalizers are persisted, whatever state
\* the earlier passes and requests left.
C18_TerminalConverges ==
    \A k \in TerminalKeys : \A img \in Images :
        <>[]Settled(k, img) => <>[]Converged(k)

\* converged by the retry of a failed pass
C18_Witness ==
    \E k \in TerminalKeys :
        /\ Converged(k)
        /\ tlast[k].res = "ok"
        /\ tlast[k].prev.res = "err"
        /\ tlast[k].mutated

\* C19 (as claimed): after a successful pass over a non-deleting Terminal the
\* Deployment runs the image the Terminal's spec names at that moment, also
\* when the Deployment was created for an earlier image.
C19_ImageFollowsSpec ==
    \A k \in TerminalKeys :
        LET l == tlast[k] IN
        (/\ l.res = "ok"
         /\ l.obj # NoObj
         /\ ~l.obj.deleting
         /\ k \in DOMAIN terminals
         /\ terminals[k].image = l.obj.image)
        => /\ DerivedName(k) \in DOMAIN deployments
           /\ deployments[DerivedName(k)].image = terminals[k].image

\* the User is in the store, marked for deletion, with the role list rs, and
\* no store call has failed
Condemned(k, rs) ==
    /\ k \in DOMAIN users
    /\ users[k].deleting
    /\ users[k].roles = rs
    /\ faults = 0

\* C20 (as claimed): a User marked for deletion is eventually released (gone
\* from the store, which takes a successful pass that persists an empty
\* finalizer list), passes being retried and the store never failing, unless
\* its role list is changed meanwhile.
C20_UserEventuallyReleased ==
    \A k \in SoloUsers : \A rs \in RoleLists :
        Condemned(k, rs) ~> (~Condemned(k, rs))

\* C21: a pass that met a store error other than the three benign answers
\* (an injected error at any call, or Conflict / NotFound at the final
\* Update) returns an error; no pass in flight goes on after such an error,
\* so an error met before the final Update means the Update is not issued:
\* nothing is written back, and the primary object in the store is as the
\* pass read it unless someone else wrote it.
C21_ErrorsPropagate ==
    /\ \A k \in TerminalKeys :
        LET l == tlast[k] IN
        /\ tpc[k] # "idle" => ~tpass[k].fault
        /\ (l.res # Nil /\ (l.fault \/ (l.stale /\ l.stage = "update")))
            => /\ l.res = "err"
               /\ l.updated = NoObj
               /\ (~l.stale /\ ~l.marked) => Lookup(terminals, k) = l.obj
    /\ \A k \in UserKeys :
        LET l == ulast[k] IN
        /\ upc[k] # "idle" => ~upass[k].fault
        /\ (l.res # Nil /\ (l.fault \/ (l.stale /\ l.stage = "update")))
            => /\ l.res = "err"
               /\ l.updated = NoObj
               /\ (~l.stale /\ ~l.marked) => Lookup(users, k) = l.obj

\* a User pass created a binding and then met a store error in the loop
C21_Witness ==
    \E k \in UserKeys :
        /\ ulast[k].res = "err"
        /\ ulast[k].fault
        /\ ulast[k].stage = "rolebindings"
        /\ ulast[k].mutated
        /\ ulast[k].calls >= 3
        /\ k \in DOMAIN users
        /\ users[k] = ulast[k].obj

\* the successful pass recorded in l took the finalizer f off the stored
\* primary object
Dropped(l, f) ==
    /\ l.res = "ok"
    /\ l.obj # NoObj
    /\ l.updated # NoObj
    /\ f \in l.obj.finalizers
    /\ f \notin l.updated.finalizers

\* C22 (as claimed): when a pass has taken the finalizer of a derived kind off
\* the stored primary object, no derived object of that kind created for the
\* primary object is in the store; for the binding finalizer of a User: no
\* binding with the User's Identity as subject, whichever role it is for.
C22_FinalizerGoesLast ==
    /\ \A k \in TerminalKeys :
        /\ Dropped(tlast[k], TerminalDeploymentFinalizer)
              => DerivedName(k) \notin DOMAIN deployments
        /\ Dropped(tlast[k], TerminalServiceFinalizer)
              => DerivedName(k) \notin DOMAIN services
    /\ \A k \in UserKeys :
        /\ Dropped(ulast[k], UserServiceAccountFinalizer)
              => <<k[1], k[2]>> \notin DOMAIN serviceaccounts
        /\ Dropped(ulast[k], UserRoleBindingFinalizer)
              => BindingsOf(k) = {}

\* C22 (amended): as above, but for the binding finalizer of a User: no
\* binding of a role that the User lists when the finalizer is taken off.
C22_FinalizerGoesAfterListed ==
    /\ \A k \in TerminalKeys :
        /\ Dropped(tlast[k], TerminalDeploymentFinalizer)
              => DerivedName(k) \notin DOMAIN deployments
        /\ Dropped(tlast[k], TerminalServiceFinalizer)
              => DerivedName(k) \notin DOMAIN services
    /\ \A k \in UserKeys :
        /\ Dropped(ulast[k], UserServiceAccountFinalizer)
              => <<k[1], k[2]>> \notin DOMAIN serviceaccounts
        /\ Dropped(ulast[k], UserRoleBindingFinalizer)
              => NoneBound(k, ulast[k].updated.roles)

\* a deletion pass deleted the binding of the one listed role and took the
\* binding finalizer off, while the binding of a role no longer listed stays
C22_Witness ==
    \E k \in UserKeys :
        /\ Dropped(ulast[k], UserRoleBindingFinalizer)
        /\ Len(ulast[k].updated.roles) = 1
        /\ BindingName(k, ulast[k].updated.roles[1]) \in DOMAIN ulast[k].pre
        /\ BindingsOf(k) # {}

\* C23: after a successful pass that read its primary object without deletion
\* timestamp, the object is in the store with the finalizer of each derived
\* kind: also a User with an empty role list, and also when a Create of the
\* pass answered AlreadyExists.
C23_FinalizersAttached ==
    /\ \A k \in TerminalKeys :
        (tlast[k].res = "ok" /\ CreatePath(tlast[k]))
        => /\ k \in DOMAIN terminals
           /\ TerminalFinalizers \subseteq terminals[k].finalizers
    /\ \A k \in UserKeys :
        (ulast[k].res = "ok" /\ CreatePath(ulast[k]))
        => /\ k \in DOMAIN users
           /\ {UserServiceAccountFinalizer, UserRoleBindingFinalizer}
                 \subseteq users[k].finalizers

\* a pass over a User with no role, whose ServiceAccount was there already
C23_Witness ==
    \E k \in UserKeys :
        /\ ulast[k].res = "ok"
        /\ CreatePath(ulast[k])
        /\ ulast[k].obj.roles = <<>>
        /\ ulast[k].existed
        /\ UserRoleBindingFinalizer \in users[k].finalizers

\* C24: a Terminal pass that is at the Service step or past it has finished
\* the Workload step without error; a pass that has deleted the Service has
\* before that deleted the Deployment its Terminal held the finalizer of; and
\* a pass that failed in the Workload step made that one store call and left
\* the Service as it was.
C24_WorkloadBeforeService ==
    \A k \in TerminalKeys :
        /\ tpc[k] \in {"service", "update"}
              => (~tpass[k].fault /\ ~tpass[k].notFound)
        /\ (/\ <<"Service", DerivedName(k)>> \in tpass[k].dels
            /\ TerminalDeploymentFinalizer \in tpass[k].obj.finalizers)
              => <<"Deployment", DerivedName(k)>> \in tpass[k].dels
        /\ (tlast[k].res = "err" /\ tlast[k].stage = "deployment")
              => /\ tlast[k].calls = 1
                 /\ TerminalDerived(k).service = tlast[k].pre.service

\* a deletion pass has deleted the Deployment, then the Service
C24_Witness ==
    \E k \in TerminalKeys :
        /\ tpc[k] = "update"
        /\ tobj[k].deleting
        /\ tpass[k].dels = {<<"Deployment", DerivedName(k)>>,
                            <<"Service", DerivedName(k)>>}

\* C25 (as claimed): when the primary object is gone from the store and the
\* pass that followed has found it gone, none of the derived objects is in
\* the store.
C25_NoPermanentOrphan ==
    /\ \A k \in TerminalKeys :
        (k \notin DOMAIN terminals /\ tpc[k] = "idle" /\ PrimaryNotFound(tlast[k]))
        => /\ DerivedName(k) \notin DOMAIN deployments
           /\ DerivedName(k) \notin DOMAIN services
    /\ \A k \in UserKeys :
        (k \notin DOMAIN users /\ upc[k] = "idle" /\ PrimaryNotFound(ulast[k]))
        => /\ <<k[1], k[2]>> \notin DOMAIN serviceaccounts
           /\ BindingsOf(k) = {}

\* the store without the objects under the names of the Terminal k: the
\* Terminal, and the Deployment and the Service named after it
Elsewhere(k) ==
    <<Drop(terminals, k), Drop(deployments, DerivedName(k)),
      Drop(services, DerivedName(k))>>

\* C26: a step of a pass for the Terminal k leaves every object under another
\* name as it is, and leaves the pass of every other Terminal where it is,
\* with the object it holds. So the steps of passes for distinct Terminals
\* read and write disjoint parts of the store, and every interleaving of
\* them ends in the store state of running the passes one after the other.
C26_TerminalsIndependent ==
    [][\A k \in TerminalKeys :
          TerminalPass(k)
          => /\ Elsewhere(k)' = Elsewhere(k)
             /\ \A k2 \in TerminalKeys \ {k} :
                   /\ tpc'[k2] = tpc[k2]
                   /\ tobj'[k2] = tobj[k2]
                   /\ tpass'[k2] = tpass[k2]]_vars

\* both Terminals reconciled, one pass having taken its steps while the
\* other was in flight
C26_Witness ==
    \E k \in TerminalKeys : \E k2 \in TerminalKeys \ {k} :
        /\ tlast[k].res = "ok"
        /\ tlast[k].mutated
        /\ tpc[k2] = "update"
        /\ tpass[k2].mutated
        /\ DerivedName(k) \in DOMAIN deployments
        /\ DerivedName(k2) \in DOMAIN deployments
        /\ DerivedName(k) # DerivedName(k2)

\* C27 (as claimed): the bindings of two Users never share a name. So after
\* a successful pass on the create path the binding under the name of each
\* listed role has the User's own Identity as subject, and a binding that a
\* pass has deleted had the Identity of the pass's User as subject.
C27_BindingNamesApart ==
    \A k \in UserKeys :
        /\ (ulast[k].res = "ok" /\ CreatePath(ulast[k]))
           => \A i \in 1..Len(ulast[k].obj.roles) :
                 LET b == BindingName(k, ulast[k].obj.roles[i]) IN
                 b \in DOMAIN rolebindings => rolebindings[b].subject.name = k[2]
        /\ \A id \in upass[k].dels :
              (id[1] = "RoleBinding" /\ id[2] \in DOMAIN upass[k].pre)
              => upass[k].pre[id[2]].subject.name = k[2]

\* C28 (as claimed): an object that someone else created under a derived
\* name stays in the store until someone else deletes it: no pass deletes it.
C28_ForeignObjectsStay ==
    \A id \in foreign :
        id[2] \in DOMAIN (IF id[1] = "Deployment" THEN deployments ELSE services)

\* the Terminal is live and its last pass, which nothing has touched it
\* since, left it fully reconciled
Reconciled(k) ==
    /\ k \in DOMAIN terminals
    /\ ~terminals[k].deleting
    /\ terminals[k].finalizers = TerminalFinalizers
    /\ tpc[k] = "idle"
    /\ tlast[k].res = "ok"
    /\ ~tlast[k].marked

\* C30 (as claimed): when a derived object of a live, fully reconciled
\* Terminal is gone from the store, a reconcile request for the Terminal is
\* in the queue, so that a pass re-creates the object.
C30_ExternalDeleteIsDispatched ==
    \A k \in TerminalKeys :
        (/\ Reconciled(k)
         /\ \/ DerivedName(k) \notin DOMAIN deployments
            \/ DerivedName(k) \notin DOMAIN services)
        => k \in pending

\* C29: the final Update of a pass whose primary object was written in the
\* store since the pass read it (and is still there) leaves the object as
\* the store holds it and the pass returns an error (Conflict, when the store
\* is healthy); and every pass starts from the object as the store holds it
\* at its Get, so the retried pass acts on the new state.
C29_StaleUpdateConflicts ==
    [][/\ \A k \in TerminalKeys :
            /\ (TerminalUpdate(k) /\ tpass[k].stale /\ k \in DOMAIN terminals)
                  => (terminals' = terminals /\ tlast'[k].res = "err")
            /\ (TerminalGet(k) /\ tpc'[k] # "idle")
                  => (tobj'[k] = terminals[k] /\ ~tpass'[k].stale)
       /\ \A k \in UserKeys :
            /\ (UserUpdate(k) /\ upass[k].stale /\ k \in DOMAIN users)
                  => (users' = users /\ ulast'[k].res = "err")
            /\ (UserGet(k) /\ upc'[k] # "idle")
                  => (uobj'[k] = users[k] /\ ~upass'[k].stale)]_vars

\* a Terminal was edited while a pass was in flight; the Update of the pass
\* answered Conflict, and the retried pass has read the edited Terminal
C29_Witness ==
    \E k \in TerminalKeys :
        /\ tpc[k] = "deployment"
        /\ tpass[k].prev.res = "err"
        /\ tpass[k].prev.stage = "update"
        /\ ~tpass[k].stale
        /\ faults = 0
        /\ tobj[k] = terminals[k]
        /\ tobj[k].finalizers = {}
        /\ DerivedName(k) \in DOMAIN deployments
        /\ deployments[DerivedName(k)].image # tobj[k].image

\* C31: no step of a User pass, on the create path or on the delete path,
\* changes the Roles in the store: none is created, updated or deleted.
C31_RolesUntouched ==
    [][\A k \in UserKeys : UserPass(k) => roles' = roles]_vars

\* a pass has created the binding of a role that has no Role, and a later
\* pass has deleted that binding; the Role is still missing and the Role that
\* was there from the start is still there
C31_Witness ==
    \E k \in UserKeys :
        /\ upc[k] = "update"
        /\ uobj[k].deleting
        /\ <<"RoleBinding", BindingName(k, "NoExistRole")>> \in upass[k].dels
        /\ <<k[1], "NoExistRole">> \notin DOMAIN roles
        /\ <<k[1], "SomeRole">> \in DOMAIN roles

=============================================================================
